---------------------------- MODULE Spec2Model ----------------------------
(***************************************************************************)
(* Model of the allocation core of SPP_Ingredients_Allocation_App.py:      *)
(* calculate_proportion (usage aggregator) and allocate_quantity (quantity *)
(* allocator).                                                             *)
(*                                                                         *)
(* Numbers.  pandas computes on float64.  The model computes on exact      *)
(* rationals [n, d] in lowest terms, every arithmetic step being the one   *)
(* the code performs (division by the total, multiplication by 100, the    *)
(* renormalisation, round-half-to-even, int() truncation).                 *)
(*                                                                         *)
(* Strings.  ITEM NAME, the identifier and str(ITEM_SERIAL) are sequences  *)
(* of one-character strings so that str.lower(), str.isnumeric() and the   *)
(* == comparison are computed character by character.                      *)
(*                                                                         *)
(* Sorting.  Both sort_values calls use the default kind='quicksort',      *)
(* which pandas documents as not stable: the order of rows with equal keys *)
(* is whatever the numpy build produces.  The model lets the order of      *)
(* equal keys be any order.                                                *)
(***************************************************************************)
EXTENDS Integers, Sequences, FiniteSets, TLC

(***************************************************************************)
(* Bounds of the model.                                                    *)
(***************************************************************************)
MaxRecords == 4      \* rows of the loaded sheet
MaxQty == 2          \* QUANTITY of one row is in 0..MaxQty
MaxAvail == 3        \* integer available_quantity is in 0..MaxAvail
MaxFormRecords == 2  \* rows of the sheet when a form is submitted
MaxEntries == 2      \* (item, quantity) entries of one submission

(***************************************************************************)
(* Exact rationals standing for float64 values.                            *)
(***************************************************************************)
Abs(x) == IF x < 0 THEN -x ELSE x

RECURSIVE GCD(_, _)
GCD(a, b) == IF b = 0 THEN a ELSE GCD(b, a % b)

\* the value of a float64 division by zero
NaN == [n |-> 0, d |-> 0]

IsNaN(x) == x.d = 0

\* the rational n/d in lowest terms with a positive denominator; NaN when
\* d = 0
Frac(n, d) ==
    LET g == GCD(Abs(n), Abs(d))
        s == IF d < 0 THEN -1 ELSE 1
    IN  IF d = 0 THEN NaN ELSE [n |-> s * (n \div g), d |-> s * (d \div g)]

FInt(k) == [n |-> k, d |-> 1]
FAdd(x, y) == Frac(x.n * y.d + y.n * x.d, x.d * y.d)
FSub(x, y) == Frac(x.n * y.d - y.n * x.d, x.d * y.d)
FMul(x, y) == Frac(x.n * y.n, x.d * y.d)
FDiv(x, y) == Frac(x.n * y.d, x.d * y.n)
FLt(x, y) == x.n * y.d < y.n * x.d
FGe(x, y) == ~IsNaN(x) /\ ~IsNaN(y) /\ ~FLt(x, y)
FGt(x, y) == FLt(y, x)
FIsInt(x) == x.d = 1
FFloor(x) == x.n \div x.d
FCeil(x) == IF x.d = 1 THEN x.n ELSE (x.n \div x.d) + 1

RECURSIVE FSumSeq(_)
FSumSeq(s) == IF s = <<>> THEN FInt(0) ELSE FAdd(Head(s), FSumSeq(Tail(s)))

RECURSIVE SumSeq(_)
SumSeq(s) == IF s = <<>> THEN 0 ELSE Head(s) + SumSeq(Tail(s))

\* Series.round(0): numpy rounds to the nearest integer, halves to even
RoundHalfEven(x) ==
    LET fl == FFloor(x)
        r2 == 2 * (x.n - fl * x.d)
    IN  IF r2 < x.d THEN fl
        ELSE IF r2 > x.d THEN fl + 1
        ELSE IF fl % 2 = 0 THEN fl ELSE fl + 1

\* int(x): truncation toward zero
IntTrunc(x) == IF x.n >= 0 THEN x.n \div x.d ELSE -((-x.n) \div x.d)

(***************************************************************************)
(* Strings as sequences of characters.                                     *)
(***************************************************************************)
Digits == <<"0", "1", "2", "3", "4", "5", "6", "7", "8", "9">>

LowerChar(c) == IF c = "F" THEN "f" ELSE IF c = "L" THEN "l" ELSE c

\* str.lower()
Lower(s) == [i \in DOMAIN s |-> LowerChar(s[i])]

\* str.isnumeric(): at least one character and every character a digit
isnumeric(s) ==
    /\ Len(s) > 0
    /\ \A i \in DOMAIN s : \E k \in DOMAIN Digits : Digits[k] = s[i]

\* astype(str) of an integer serial code: its decimal digits
RECURSIVE ToStr(_)
ToStr(k) == IF k < 10 THEN <<Digits[k + 1]>>
            ELSE Append(ToStr(k \div 10), Digits[(k % 10) + 1])

(***************************************************************************)
(* The loaded sheet (df): rows with the four columns the core reads.       *)
(***************************************************************************)
None == "None"                       \* Python's None for the department argument
AllDepartments == "All Departments"  \* the sentinel of the department filter

\* department labels in the order groupby sorts its keys
Departments == <<"A", "B", "C", "D">>

\* the items of the sheet: (ITEM_SERIAL, ITEM NAME)
Items == << <<10, <<"F", "l">> >>, <<1, <<"1", "0">> >> >>

Row(it, dp, q) ==
    [ITEM_SERIAL |-> Items[it][1], ITEM_NAME |-> Items[it][2],
     DEPARTMENT |-> Departments[dp], QUANTITY |-> q]

\* A fixed enumeration of the rows a sheet is made of: the first item in
\* every department with every quantity 0..MaxQty, then one row of the
\* second item.
NumRowKeys == Len(Departments) * (MaxQty + 1) + 1

RowOfKey(k) ==
    IF k < Len(Departments) * (MaxQty + 1)
    THEN Row(1, (k \div (MaxQty + 1)) + 1, k % (MaxQty + 1))
    ELSE Row(2, 1, 1)

\* The sheets of at most MaxRecords rows.  No step of the core depends on
\* the order of the rows (boolean masks keep it, groupby sorts its keys),
\* so one order per multiset of rows is enumerated.
Sheets ==
    UNION { { [i \in 1..n |-> RowOfKey(ks[i])] :
                ks \in { f \in [1..n -> 0..(NumRowKeys - 1)] :
                           \A i \in 1..(n - 1) : f[i] <= f[i + 1] } } :
            n \in 0..MaxRecords }

\* identifiers tried: the name of the first item in another letter case,
\* its serial code (also the name of the second item), the serial code of
\* the second item (a prefix of the first one's), a prefix of a name
Identifiers ==
    { <<"f", "L">>, <<"1", "0">>, <<"1">>, <<"F">> }

\* department arguments tried: none, the sentinel, two labels
DepartmentArgs == {None, AllDepartments, Departments[1], Departments[2]}

\* min_proportion values tried, all in [0, 100)
MinProportions == {0, 1, 30, 50}

\* available_quantity values tried: the integers 0..MaxAvail and two of the
\* non-integers the form's number_input (min 0.1, step 0.1) can deliver
Quantities ==
    {FInt(k) : k \in 0..MaxAvail} \cup {Frac(1, 10), Frac(21, 2)}

(***************************************************************************)
(* calculate_proportion                                                    *)
(***************************************************************************)
\* MatchIdentifier with str.contains in place of ==
MatchIdentifier_Contains(df, identifier) ==
    LET contains(t, sub) ==
          \E k \in 1..(Len(t) - Len(sub) + 1) : SubSeq(t, k, k + Len(sub) - 1) = sub
    IN  IF isnumeric(identifier)
        THEN SelectSeq(df, LAMBDA r : contains(Lower(ToStr(r.ITEM_SERIAL)), Lower(identifier)))
        ELSE SelectSeq(df, LAMBDA r : contains(Lower(r.ITEM_NAME), Lower(identifier)))

\* df[df["ITEM_SERIAL"].astype(str).str.lower() == identifier.lower()] or
\* df[df["ITEM NAME"].str.lower() == identifier.lower()]
MatchIdentifier(df, identifier) ==
    IF isnumeric(identifier)
    THEN SelectSeq(df, LAMBDA r : Lower(ToStr(r.ITEM_SERIAL)) = Lower(identifier))
    ELSE SelectSeq(df, LAMBDA r : Lower(r.ITEM_NAME) = Lower(identifier))

\* DepartmentGiven with the sentinel test inverted
DepartmentGiven_Inverted(department) ==
    /\ department # None
    /\ department # ""
    /\ department = AllDepartments

\* department and department != "All Departments"
DepartmentGiven(department) ==
    /\ department # None
    /\ department # ""
    /\ department # AllDepartments

MatchDepartment(fdf, department) ==
    SelectSeq(fdf, LAMBDA r : r.DEPARTMENT = department)

\* groupby("DEPARTMENT")["QUANTITY"].sum().reset_index(): one row per
\* department present, keys sorted, index labels 0, 1, ...
GroupByDepartment(fdf) ==
    LET present == SelectSeq(Departments,
                     LAMBDA dp : \E i \in DOMAIN fdf : fdf[i].DEPARTMENT = dp)
        qty(dp) == SumSeq([i \in DOMAIN fdf |->
                     IF fdf[i].DEPARTMENT = dp THEN fdf[i].QUANTITY ELSE 0])
    IN  [i \in DOMAIN present |->
           [index |-> i - 1, DEPARTMENT |-> present[i], QUANTITY |-> qty(present[i])]]

Column(rows, c) == [i \in DOMAIN rows |-> rows[i][c]]

\* dept_usage["PROPORTION"] = (dept_usage["QUANTITY"] / total_usage) * 100
WithProportion(usage, total_usage) ==
    [i \in DOMAIN usage |->
       [index |-> usage[i].index, DEPARTMENT |-> usage[i].DEPARTMENT,
        QUANTITY |-> usage[i].QUANTITY,
        PROPORTION |-> FMul(FDiv(FInt(usage[i].QUANTITY), FInt(total_usage)), FInt(100))]]

\* Significant with a strict comparison, PROPORTION > min_proportion
Significant_Strict(usage, min_proportion) ==
    SelectSeq(usage, LAMBDA r : FGt(r.PROPORTION, min_proportion))

\* dept_usage[dept_usage["PROPORTION"] >= min_proportion]
Significant(usage, min_proportion) ==
    SelectSeq(usage, LAMBDA r : FGe(r.PROPORTION, min_proportion))

\* dept_usage["PROPORTION"].idxmax(): label of the first row holding the maximum
IdxMax(usage) ==
    LET i == CHOOSE i \in DOMAIN usage :
               /\ \A j \in DOMAIN usage : FGe(usage[i].PROPORTION, usage[j].PROPORTION)
               /\ \A j \in 1..(i - 1) : FLt(usage[j].PROPORTION, usage[i].PROPORTION)
    IN  usage[i].index

\* pd.DataFrame([dept_usage.iloc[k]])
ILoc(usage, k) == << usage[k + 1] >>

\* the rows kept by the threshold, or the highest row when none is kept
ApplyThreshold(usage, min_proportion) ==
    LET significant_depts == Significant(usage, min_proportion)
    IN  IF significant_depts = <<>> /\ usage # <<>>
        THEN ILoc(usage, IdxMax(usage))
        ELSE significant_depts

\* Renormalize without the recalculation of PROPORTION
Renormalize_NoRescale(sig) ==
    LET abs_sum == SumSeq([i \in DOMAIN sig |-> Abs(sig[i].QUANTITY)])
    IN  [i \in DOMAIN sig |->
           [index |-> sig[i].index, DEPARTMENT |-> sig[i].DEPARTMENT,
            QUANTITY |-> sig[i].QUANTITY,
            PROPORTION |-> sig[i].PROPORTION,
            QUANTITY_ABS |-> Abs(sig[i].QUANTITY),
            INTERNAL_WEIGHT |-> Frac(Abs(sig[i].QUANTITY), abs_sum)]]

\* Renormalize dividing by total_proportion without the * 100
Renormalize_NoPercent(sig) ==
    LET total_proportion == FSumSeq([i \in DOMAIN sig |-> sig[i].PROPORTION])
        abs_sum == SumSeq([i \in DOMAIN sig |-> Abs(sig[i].QUANTITY)])
    IN  [i \in DOMAIN sig |->
           [index |-> sig[i].index, DEPARTMENT |-> sig[i].DEPARTMENT,
            QUANTITY |-> sig[i].QUANTITY,
            PROPORTION |-> FDiv(sig[i].PROPORTION, total_proportion),
            QUANTITY_ABS |-> Abs(sig[i].QUANTITY),
            INTERNAL_WEIGHT |-> Frac(Abs(sig[i].QUANTITY), abs_sum)]]

\* significant_depts["PROPORTION"] / total_proportion * 100, then the
\* QUANTITY_ABS and INTERNAL_WEIGHT columns
Renormalize(sig) ==
    LET total_proportion == FSumSeq(Column(sig, "PROPORTION"))
        abs_sum == SumSeq([i \in DOMAIN sig |-> Abs(sig[i].QUANTITY)])
    IN  [i \in DOMAIN sig |->
           [index |-> sig[i].index, DEPARTMENT |-> sig[i].DEPARTMENT,
            QUANTITY |-> sig[i].QUANTITY,
            PROPORTION |-> FMul(FDiv(sig[i].PROPORTION, total_proportion), FInt(100)),
            QUANTITY_ABS |-> Abs(sig[i].QUANTITY),
            INTERNAL_WEIGHT |-> Frac(Abs(sig[i].QUANTITY), abs_sum)]]

\* the permutations of 1..n
Perms(n) == { p \in [1..n -> 1..n] : \A i, j \in 1..n : i # j => p[i] # p[j] }

\* sort_values(by=["PROPORTION"], ascending=[False]) with the default
\* kind='quicksort': every arrangement of the rows in which PROPORTION
\* does not increase
SortDescending(rows) ==
    { [i \in DOMAIN rows |-> rows[p[i]]] :
        p \in { q \in Perms(Len(rows)) :
                  \A i \in 1..(Len(rows) - 1) :
                     FGe(rows[q[i]].PROPORTION, rows[q[i + 1]].PROPORTION) } }

NotFound == [kind |-> "None", dept_usage |-> <<>>, rows |-> <<>>]

\* ZeroUsage testing for a negative total
ZeroUsage_Negative(total_usage) == total_usage < 0

\* if total_usage == 0
ZeroUsage(total_usage) == total_usage = 0

\* idxmax over shares that are all NaN has no row to give; iloc then
\* raises, and the except branch returns None
Raises(usage, min_proportion) ==
    /\ Significant(usage, min_proportion) = <<>>
    /\ \A i \in DOMAIN usage : IsNaN(usage[i].PROPORTION)

\* the values calculate_proportion can return, with its local dept_usage
calculate_proportion(df, identifier, department, min_proportion) ==
    LET by_item == MatchIdentifier(df, identifier)
        filtered_df == IF DepartmentGiven(department)
                       THEN MatchDepartment(by_item, department)
                       ELSE by_item
        grouped == GroupByDepartment(filtered_df)
        total_usage == SumSeq(Column(grouped, "QUANTITY"))
        dept_usage == WithProportion(grouped, total_usage)
        renormalized == Renormalize(ApplyThreshold(dept_usage, min_proportion))
    IN  IF by_item = <<>> THEN {NotFound}
        ELSE IF filtered_df = <<>> THEN {NotFound}
        ELSE IF ZeroUsage(total_usage) THEN {NotFound}
        ELSE IF Raises(dept_usage, min_proportion)
        THEN {[kind |-> "None", dept_usage |-> dept_usage, rows |-> <<>>]}
        ELSE { [kind |-> "table", dept_usage |-> dept_usage, rows |-> t] :
                 t \in SortDescending(renormalized) }

(***************************************************************************)
(* allocate_quantity                                                       *)
(***************************************************************************)
\* ExactShare without the division by 100
ExactShare_NoPercent(row, available_quantity) ==
    FMul(row.PROPORTION, available_quantity)

\* (proportions["PROPORTION"] / 100) * available_quantity
ExactShare(row, available_quantity) ==
    FMul(FDiv(row.PROPORTION, FInt(100)), available_quantity)

\* the ALLOCATED_QUANTITY column after .round(0).astype(int)
WithRounded(rows, available_quantity) ==
    [i \in DOMAIN rows |->
       [index |-> rows[i].index, DEPARTMENT |-> rows[i].DEPARTMENT,
        QUANTITY |-> rows[i].QUANTITY, PROPORTION |-> rows[i].PROPORTION,
        QUANTITY_ABS |-> rows[i].QUANTITY_ABS,
        INTERNAL_WEIGHT |-> rows[i].INTERNAL_WEIGHT,
        ALLOCATED_QUANTITY |-> RoundHalfEven(ExactShare(rows[i], available_quantity))]]

\* int(available_quantity - allocated_sum)
Difference(available_quantity, allocated_sum) ==
    IntTrunc(FSub(available_quantity, FInt(allocated_sum)))

\* FractionalPartsAdd with the subtraction the other way round
FractionalPartsAdd_Negated(rows, available_quantity) ==
    [i \in DOMAIN rows |->
       FSub(FInt(rows[i].ALLOCATED_QUANTITY), ExactShare(rows[i], available_quantity))]

\* fractional_parts when units are added: exact share minus rounded value
FractionalPartsAdd(rows, available_quantity) ==
    [i \in DOMAIN rows |->
       FSub(ExactShare(rows[i], available_quantity), FInt(rows[i].ALLOCATED_QUANTITY))]

\* fractional_parts when units are removed: exact share minus (rounded value - 1)
FractionalPartsRemove(rows, available_quantity) ==
    [i \in DOMAIN rows |->
       FSub(ExactShare(rows[i], available_quantity), FInt(rows[i].ALLOCATED_QUANTITY - 1))]

\* SortedOrders with the direction inverted
SortedOrders_Reversed(keys, ascending) ==
    { p \in Perms(Len(keys)) :
        \A i \in 1..(Len(keys) - 1) :
           IF ascending THEN FGe(keys[p[i]], keys[p[i + 1]])
                        ELSE FGe(keys[p[i + 1]], keys[p[i]]) }

\* Series.sort_values(ascending=...) with the default kind='quicksort':
\* every arrangement of the positions in which the keys are in order
SortedOrders(keys, ascending) ==
    { p \in Perms(Len(keys)) :
        \A i \in 1..(Len(keys) - 1) :
           IF ascending THEN FGe(keys[p[i + 1]], keys[p[i]])
                        ELSE FGe(keys[p[i]], keys[p[i + 1]]) }

Min(a, b) == IF a < b THEN a ELSE b

\* FirstLabels with the slice one short, as .index[:k - 1]
FirstLabels_Short(rows, order, k) ==
    { rows[order[i]].index : i \in 1..Min(k - 1, Len(order)) }

\* .index[:k].tolist(): the labels of the first k rows of an arrangement
FirstLabels(rows, order, k) ==
    { rows[order[i]].index : i \in 1..Min(k, Len(order)) }

\* for idx in indices: proportions.at[idx, "ALLOCATED_QUANTITY"] += delta
Adjust(rows, indices, delta) ==
    [i \in DOMAIN rows |->
       IF rows[i].index \in indices
       THEN [rows[i] EXCEPT !.ALLOCATED_QUANTITY = @ + delta]
       ELSE rows[i]]

\* the tables the correction step can leave in proportions
Corrected(rows, available_quantity) ==
    LET allocated_sum == SumSeq(Column(rows, "ALLOCATED_QUANTITY"))
        difference == Difference(available_quantity, allocated_sum)
    IN  IF FInt(allocated_sum) = available_quantity THEN {rows}
        ELSE IF difference > 0
        THEN { Adjust(rows, FirstLabels(rows, p, difference), 1) :
                 p \in SortedOrders(FractionalPartsAdd(rows, available_quantity), FALSE) }
        ELSE IF difference < 0
        THEN { Adjust(rows, FirstLabels(rows, p, -difference), -1) :
                 p \in SortedOrders(FractionalPartsRemove(rows, available_quantity), TRUE) }
        ELSE {rows}

\* FinalCheck with the assertion compiled away
FinalCheck_Skipped(rows, available_quantity) == TRUE

\* assert final_sum == available_quantity
FinalCheck(rows, available_quantity) ==
    FInt(SumSeq(Column(rows, "ALLOCATED_QUANTITY"))) = available_quantity

\* min_proportion=1.0 in the call of calculate_proportion
DefaultMinProportion == 1

\* the outcomes of allocate_quantity: None, the table, or the AssertionError
\* of the final check (proportions as it was when the assertion failed)
allocate_quantity(df, identifier, available_quantity, department) ==
    UNION { IF pr.kind = "None" THEN {pr}
            ELSE { [kind |-> IF FinalCheck(t, available_quantity)
                             THEN "table" ELSE "AssertionError",
                    dept_usage |-> pr.dept_usage, rows |-> t] :
                     t \in Corrected(WithRounded(pr.rows, available_quantity),
                                     available_quantity) } :
            pr \in calculate_proportion(df, identifier, department,
                                        FInt(DefaultMinProportion)) }

(***************************************************************************)
(* State: the loaded sheet, and the call in progress with its arguments,   *)
(* the local dept_usage and the outcome.                                   *)
(***************************************************************************)
VARIABLES data, pc, fn, identifier, department, available_quantity,
          min_proportion, dept_usage, result, entries, outcomes

vars == <<data, pc, fn, identifier, department, available_quantity,
          min_proportion, dept_usage, result, entries, outcomes>>

NoResult == [kind |-> "idle", rows |-> <<>>]

Init ==
    /\ data \in Sheets
    /\ pc = "idle"
    /\ fn = "none"
    /\ identifier = <<>>
    /\ department = None
    /\ available_quantity = FInt(0)
    /\ min_proportion = FInt(0)
    /\ dept_usage = <<>>
    /\ result = NoResult
    /\ entries = <<>>
    /\ outcomes = <<>>

\* a call calculate_proportion(data, id, dep, t)
CallCalculateProportion ==
    /\ pc = "idle"
    /\ \E id \in Identifiers, dep \in DepartmentArgs, t \in MinProportions :
         \E out \in calculate_proportion(data, id, dep, FInt(t)) :
            /\ fn' = "calculate_proportion"
            /\ identifier' = id
            /\ department' = dep
            /\ min_proportion' = FInt(t)
            /\ dept_usage' = out.dept_usage
            /\ result' = [kind |-> out.kind, rows |-> out.rows]
    /\ pc' = "returned"
    /\ UNCHANGED <<data, available_quantity, entries, outcomes>>

\* a call allocate_quantity(data, id, q, dep)
CallAllocateQuantity ==
    /\ pc = "idle"
    /\ \E id \in Identifiers, dep \in DepartmentArgs, q \in Quantities :
         \E out \in allocate_quantity(data, id, q, dep) :
            /\ fn' = "allocate_quantity"
            /\ identifier' = id
            /\ department' = dep
            /\ available_quantity' = q
            /\ dept_usage' = out.dept_usage
            /\ result' = [kind |-> out.kind, rows |-> out.rows]
    /\ min_proportion' = FInt(DefaultMinProportion)
    /\ pc' = "returned"
    /\ UNCHANGED <<data, entries, outcomes>>

\* the caller has consumed the outcome; the next call starts afresh
Return ==
    /\ pc = "returned"
    /\ pc' = "idle"
    /\ fn' = "none"
    /\ identifier' = <<>>
    /\ department' = None
    /\ available_quantity' = FInt(0)
    /\ min_proportion' = FInt(0)
    /\ dept_usage' = <<>>
    /\ result' = NoResult
    /\ UNCHANGED <<data, entries, outcomes>>

Next == CallCalculateProportion \/ CallAllocateQuantity \/ Return

Spec == Init /\ [][Next]_vars

(***************************************************************************)
(* The allocation form: one submission of several (item, quantity)         *)
(* entries, processed one after another by the loop over entries.          *)
(***************************************************************************)
FormSheets == { s \in Sheets : Len(s) <= MaxFormRecords }

\* number_input(min_value=0.1, step=0.1) and the test available_quantity > 0
FormQuantities == { q \in Quantities : q.n > 0 }

\* unique_item_names
ItemNames(df) == { df[i].ITEM_NAME : i \in DOMAIN df }

\* unique_departments
FormDepartments(df) == {AllDepartments} \cup { df[i].DEPARTMENT : i \in DOMAIN df }

FormEntries(df) ==
    [identifier : ItemNames(df), available_quantity : FormQuantities]

InitForm ==
    /\ Init
    /\ data \in FormSheets

\* the form is submitted with its entries and the selected department;
\* with no item to select there is no entry and only a warning is shown
Submit ==
    /\ pc = "idle"
    /\ \E dep \in FormDepartments(data), n \in 1..MaxEntries :
         \E es \in [1..n -> FormEntries(data)] :
            /\ department' = dep
            /\ entries' = IF ItemNames(data) = {} THEN <<>> ELSE es
    /\ pc' = IF ItemNames(data) = {} THEN "done" ELSE "loop"
    /\ outcomes' = <<>>
    /\ UNCHANGED <<data, fn, identifier, available_quantity, min_proportion,
                   dept_usage, result>>

NextEntry == entries[Len(outcomes) + 1]

EntryOutcomes ==
    { [kind |-> o.kind, rows |-> o.rows] :
        o \in allocate_quantity(data, NextEntry.identifier,
                                NextEntry.available_quantity, department) }

\* one turn of the loop in which allocate_quantity returns: the table is
\* shown, or the not-found message
ProcessEntry ==
    /\ pc = "loop"
    /\ \E o \in EntryOutcomes :
         /\ o.kind # "AssertionError"
         /\ outcomes' = Append(outcomes, o)
    /\ pc' = IF Len(outcomes) + 1 = Len(entries) THEN "done" ELSE "loop"
    /\ UNCHANGED <<data, fn, identifier, department, available_quantity,
                   min_proportion, dept_usage, result, entries>>

\* one turn of the loop in which allocate_quantity raises: nothing in the
\* loop catches the AssertionError, the run of the script ends
EntryFails ==
    /\ pc = "loop"
    /\ \E o \in EntryOutcomes :
         /\ o.kind = "AssertionError"
         /\ outcomes' = Append(outcomes, o)
    /\ pc' = "aborted"
    /\ UNCHANGED <<data, fn, identifier, department, available_quantity,
                   min_proportion, dept_usage, result, entries>>

\* the page is shown again
Rerun ==
    /\ pc \in {"done", "aborted"}
    /\ pc' = "idle"
    /\ department' = None
    /\ entries' = <<>>
    /\ outcomes' = <<>>
    /\ UNCHANGED <<data, fn, identifier, available_quantity, min_proportion,
                   dept_usage, result>>

NextForm == Submit \/ ProcessEntry \/ EntryFails \/ Rerun

SpecForm == InitForm /\ [][NextForm]_vars

(***************************************************************************)
(* Properties.                                                             *)
(***************************************************************************)
Returned(f) == pc = "returned" /\ fn = f

Hundred == FInt(100)

ProportionSum(rows) == FSumSeq(Column(rows, "PROPORTION"))

AllocatedSum == SumSeq(Column(result.rows, "ALLOCATED_QUANTITY"))

\* the value .round(0) gave a row of the result, before the correction step
RoundedOf(i) == RoundHalfEven(ExactShare(result.rows[i], available_quantity))

\* the rows of the result the correction step changed
AdjustedRows == { i \in DOMAIN result.rows : result.rows[i].ALLOCATED_QUANTITY # RoundedOf(i) }

\* C1: whenever allocate_quantity is called with an integer
\* available_quantity >= 0 and calculate_proportion found a table, it
\* returns a table whose ALLOCATED_QUANTITY values sum exactly to
\* available_quantity, each value being within one unit of its rounded share.
C1_ExactSum ==
    (Returned("allocate_quantity") /\ result.kind # "None" /\ FIsInt(available_quantity))
    => /\ result.kind = "table"
       /\ result.rows # <<>>
       /\ AllocatedSum = available_quantity.n
       /\ \A i \in DOMAIN result.rows :
            Abs(result.rows[i].ALLOCATED_QUANTITY - RoundedOf(i)) <= 1

\* an integer total whose rounded shares missed the total by two units,
\* closed by the correction step
C1_Witness ==
    /\ Returned("allocate_quantity")
    /\ result.kind = "table"
    /\ FIsInt(available_quantity)
    /\ Cardinality(AdjustedRows) = 2
    /\ AllocatedSum = available_quantity.n

\* C2: for a non-integer available_quantity, allocate_quantity rounds the
\* total to an integer and returns a table of integer allocations that sum
\* to the rounded total.
C2_NonIntegerTotalRounded ==
    (Returned("allocate_quantity") /\ result.kind # "None" /\ ~FIsInt(available_quantity))
    => /\ result.kind = "table"
       /\ AllocatedSum = RoundHalfEven(available_quantity)

\* C3: whenever calculate_proportion returns a table, the PROPORTION values
\* sum to 100 both in dept_usage (before the threshold) and in the returned
\* rows (after the threshold and the renormalisation).
C3_Normalized ==
    (Returned("calculate_proportion") /\ result.kind = "table")
    => /\ ProportionSum(dept_usage) = Hundred
       /\ ProportionSum(result.rows) = Hundred

\* every department was below the threshold and the fallback kept one
C3_Witness ==
    /\ Returned("calculate_proportion")
    /\ result.kind = "table"
    /\ Len(dept_usage) >= 2
    /\ \A i \in DOMAIN dept_usage : FLt(dept_usage[i].PROPORTION, min_proportion)
    /\ Len(result.rows) = 1
    /\ ProportionSum(result.rows) = Hundred

\* a row of the sheet is a record of the identifier: by serial code for an
\* all-digit identifier, by item name otherwise, letter case ignored
IsRecordOf(r, id) ==
    IF isnumeric(id) THEN Lower(ToStr(r.ITEM_SERIAL)) = Lower(id)
                     ELSE Lower(r.ITEM_NAME) = Lower(id)

FilterSelected == department \notin {None, "", AllDepartments}

\* C4: if no record matches the identifier, or none of the matching
\* records belongs to the selected department, both functions return None:
\* no table, no exception.
C4_NotFound ==
    (/\ pc = "returned"
     /\ ~\E i \in DOMAIN data :
           /\ IsRecordOf(data[i], identifier)
           /\ FilterSelected => data[i].DEPARTMENT = department)
    => /\ result.kind = "None"
       /\ result.rows = <<>>

\* records match the identifier, none of them in the selected department,
\* and allocate_quantity returned None
C4_Witness ==
    /\ Returned("allocate_quantity")
    /\ FilterSelected
    /\ \E i \in DOMAIN data : IsRecordOf(data[i], identifier) /\ data[i].QUANTITY > 0
    /\ ~\E i \in DOMAIN data :
          IsRecordOf(data[i], identifier) /\ data[i].DEPARTMENT = department
    /\ result.kind = "None"

\* the share dept_usage holds for a department
ShareOf(dp) ==
    LET i == CHOOSE i \in DOMAIN dept_usage : dept_usage[i].DEPARTMENT = dp
    IN  dept_usage[i].PROPORTION

\* the departments of dept_usage at or above min_proportion
AtOrAbove ==
    { dept_usage[i].DEPARTMENT :
        i \in { j \in DOMAIN dept_usage : FGe(dept_usage[j].PROPORTION, min_proportion) } }

ResultDepartments == { result.rows[i].DEPARTMENT : i \in DOMAIN result.rows }

\* C5: the result of calculate_proportion holds exactly the departments
\* whose share is at or above min_proportion; when there is none, it holds
\* one row, a department of highest share, with PROPORTION 100.  The
\* returned shares sum to 100 and keep the ratios of the original shares.
C5_Threshold ==
    (Returned("calculate_proportion") /\ result.kind = "table")
    => /\ IF AtOrAbove # {}
          THEN /\ ResultDepartments = AtOrAbove
               /\ Len(result.rows) = Cardinality(AtOrAbove)
          ELSE /\ Len(result.rows) = 1
               /\ result.rows[1].PROPORTION = Hundred
               /\ \A j \in DOMAIN dept_usage :
                    FGe(ShareOf(result.rows[1].DEPARTMENT), dept_usage[j].PROPORTION)
       /\ ProportionSum(result.rows) = Hundred
       /\ \A i, j \in DOMAIN result.rows :
            FMul(result.rows[i].PROPORTION, ShareOf(result.rows[j].DEPARTMENT))
              = FMul(result.rows[j].PROPORTION, ShareOf(result.rows[i].DEPARTMENT))

\* a department with a positive share was dropped, two departments with
\* different shares remain and their shares were rescaled
C5_Witness ==
    /\ Returned("calculate_proportion")
    /\ result.kind = "table"
    /\ \E i \in DOMAIN dept_usage :
         /\ dept_usage[i].QUANTITY > 0
         /\ dept_usage[i].DEPARTMENT \notin ResultDepartments
    /\ Len(result.rows) >= 2
    /\ \E i \in DOMAIN result.rows :
         result.rows[i].PROPORTION # ShareOf(result.rows[i].DEPARTMENT)

\* a table offered to the step again: rows numbered 0, 1, ... as the
\* step's input is
Reindexed(rows) == [i \in DOMAIN rows |-> [rows[i] EXCEPT !.index = i - 1]]

\* the step of calculate_proportion applied to its own output
Reapplied == Renormalize(ApplyThreshold(Reindexed(result.rows), min_proportion))

\* C6: applying the threshold-and-renormalize step, with the same
\* min_proportion, to the table calculate_proportion returned drops no
\* department and changes no share.
C6_Idempotent ==
    (Returned("calculate_proportion") /\ result.kind = "table")
    => /\ Column(Reapplied, "DEPARTMENT") = Column(result.rows, "DEPARTMENT")
       /\ Column(Reapplied, "PROPORTION") = Column(result.rows, "PROPORTION")

\* the first application dropped a department and rescaled the others
C6_Witness ==
    /\ Returned("calculate_proportion")
    /\ result.kind = "table"
    /\ Len(result.rows) < Len(dept_usage)
    /\ \E i \in DOMAIN result.rows :
         result.rows[i].PROPORTION # ShareOf(result.rows[i].DEPARTMENT)
    /\ Column(Reapplied, "PROPORTION") = Column(result.rows, "PROPORTION")

\* the fractional remainder exact_i - floor(exact_i) of a row of the result
Remainder(i) ==
    LET exact == ExactShare(result.rows[i], available_quantity)
    IN  FSub(exact, FInt(FFloor(exact)))

FloorOf(i) == FFloor(ExactShare(result.rows[i], available_quantity))

\* the units left over once every row has received its floor
Leftover == available_quantity.n - SumSeq([i \in DOMAIN result.rows |-> FloorOf(i)])

\* rows ahead of row i when the leftover is handed out: a larger remainder,
\* or the same remainder and an earlier place in the table
Ahead(i) ==
    { j \in DOMAIN result.rows :
        \/ FGt(Remainder(j), Remainder(i))
        \/ (Remainder(j) = Remainder(i) /\ j < i) }

\* C7: for an integer total every row receives floor(exact_i), plus one
\* unit when it is among the Leftover rows of largest remainder, ties going
\* to the row that comes first in the table.
C7_LargestRemainder ==
    (Returned("allocate_quantity") /\ result.kind = "table" /\ FIsInt(available_quantity))
    => \A i \in DOMAIN result.rows :
         result.rows[i].ALLOCATED_QUANTITY =
           FloorOf(i) + (IF Cardinality(Ahead(i)) < Leftover THEN 1 ELSE 0)

\* the floor percentage and the quantity it stands for, when whole
MinQuantity(floor_percent) ==
    FMul(FDiv(FInt(floor_percent), Hundred), available_quantity)

BelowFloor(floor_percent) ==
    { i \in DOMAIN result.rows :
        FLt(ExactShare(result.rows[i], available_quantity), MinQuantity(floor_percent)) }

\* C8: with a minimum floor percentage (5, 25 or 50 here) under which some
\* but not all rows fall, every row below the floor is allocated
\* min_quantity and the allocations still sum to the total.
C8_MinimumFloor ==
    (Returned("allocate_quantity") /\ result.kind = "table" /\ FIsInt(available_quantity))
    => \A floor_percent \in {5, 25, 50} :
         (/\ FIsInt(MinQuantity(floor_percent))
          /\ BelowFloor(floor_percent) # {}
          /\ BelowFloor(floor_percent) # DOMAIN result.rows)
         => /\ \A i \in BelowFloor(floor_percent) :
                 result.rows[i].ALLOCATED_QUANTITY = MinQuantity(floor_percent).n
            /\ AllocatedSum = available_quantity.n

\* the departments that have records of the identifier
DepartmentsOfItem ==
    { data[i].DEPARTMENT : i \in { j \in DOMAIN data : IsRecordOf(data[j], identifier) } }

\* the summed QUANTITY of the records of the identifier
UsageOfItem ==
    SumSeq([i \in DOMAIN data |->
              IF IsRecordOf(data[i], identifier) THEN data[i].QUANTITY ELSE 0])

\* exactly one department has records of the item and the call does not
\* filter it out
SingleDepartment ==
    /\ pc = "returned"
    /\ Cardinality(DepartmentsOfItem) = 1
    /\ FilterSelected => department \in DepartmentsOfItem

C10_SortedStable ==
    (Returned("calculate_proportion") /\ result.kind = "table")
    => /\ \A i \in 1..(Len(result.rows) - 1) :
            /\ FGe(result.rows[i].PROPORTION, result.rows[i + 1].PROPORTION)
            /\ result.rows[i].PROPORTION = result.rows[i + 1].PROPORTION
                 => result.rows[i].index < result.rows[i + 1].index
       /\ Cardinality(ResultDepartments) = Len(result.rows)

\* two strings of the same length whose characters agree up to letter case
EqualIgnoringCase(a, b) ==
    /\ Len(a) = Len(b)
    /\ \A i \in DOMAIN a : LowerChar(a[i]) = LowerChar(b[i])

AllDigits(id) ==
    /\ id # <<>>
    /\ \A i \in DOMAIN id : id[i] \in {Digits[k] : k \in DOMAIN Digits}

\* the rule of selection: serial code for an all-digit identifier, item
\* name otherwise, whole field, letter case ignored
SelectedByRule(r) ==
    IF AllDigits(identifier)
    THEN EqualIgnoringCase(ToStr(r.ITEM_SERIAL), identifier)
    ELSE EqualIgnoringCase(r.ITEM_NAME, identifier)

\* the summed QUANTITY, in a department, of the rows selected by the rule
\* (and by the department filter when one is selected)
RuleUsage(dp) ==
    SumSeq([i \in DOMAIN data |->
              IF /\ SelectedByRule(data[i])
                 /\ data[i].DEPARTMENT = dp
                 /\ FilterSelected => dp = department
              THEN data[i].QUANTITY ELSE 0])

RuleDepartments ==
    { data[i].DEPARTMENT :
        i \in { j \in DOMAIN data :
                  /\ SelectedByRule(data[j])
                  /\ FilterSelected => data[j].DEPARTMENT = department } }

\* C11: the records aggregated are exactly those whose serial code (for an
\* all-digit identifier) or item name (otherwise) equals the identifier up
\* to letter case: dept_usage holds the departments of those records and
\* the sums of their quantities, and nothing of any other record.
C11_ExactMatch ==
    pc = "returned"
    => IF result.kind = "None"
       THEN \A dp \in RuleDepartments : RuleUsage(dp) = 0
       ELSE /\ { dept_usage[i].DEPARTMENT : i \in DOMAIN dept_usage } = RuleDepartments
            /\ \A i \in DOMAIN dept_usage :
                 dept_usage[i].QUANTITY = RuleUsage(dept_usage[i].DEPARTMENT)

\* the identifier "1" selects the item of serial code 1 while the sheet
\* also holds usage of serial code 10, in the same department
C11_Witness ==
    /\ pc = "returned"
    /\ result.kind = "table"
    /\ identifier = <<"1">>
    /\ \E i, j \in DOMAIN data :
         /\ data[i].ITEM_SERIAL = 10 /\ data[i].QUANTITY > 0
         /\ data[j].ITEM_SERIAL = 1
         /\ data[i].DEPARTMENT = data[j].DEPARTMENT
    /\ Len(dept_usage) = 1
    /\ dept_usage[1].QUANTITY = 1

\* C12 as stated: with a department selected the outcome is None or one
\* row, of that department, with PROPORTION 100 and (from allocate_quantity)
\* the whole available_quantity; with no department or the sentinel every
\* department that has records of the item is aggregated.
C12_DepartmentFilter ==
    pc = "returned"
    => IF FilterSelected
       THEN \/ result.kind = "None"
            \/ /\ result.kind = "table"
               /\ Len(result.rows) = 1
               /\ result.rows[1].DEPARTMENT = department
               /\ result.rows[1].PROPORTION = Hundred
               /\ fn = "allocate_quantity" =>
                    FInt(result.rows[1].ALLOCATED_QUANTITY) = available_quantity
       ELSE result.kind # "None" =>
              { dept_usage[i].DEPARTMENT : i \in DOMAIN dept_usage } = DepartmentsOfItem

\* the rows aggregated by the call: records of the identifier, in the
\* selected department when one is selected
Aggregated ==
    { i \in DOMAIN data :
        /\ IsRecordOf(data[i], identifier)
        /\ FilterSelected => data[i].DEPARTMENT = department }

AggregatedUsage ==
    SumSeq([i \in DOMAIN data |-> IF i \in Aggregated THEN data[i].QUANTITY ELSE 0])

\* C13: when the quantities of the matched records sum to zero the result
\* is None and no share has been computed; no share of any call is the
\* result of a division by zero.
C13_ZeroTotal ==
    pc = "returned"
    => /\ AggregatedUsage = 0 => (result.kind = "None" /\ dept_usage = <<>>)
       /\ \A i \in DOMAIN dept_usage : ~IsNaN(dept_usage[i].PROPORTION)
       /\ \A i \in DOMAIN result.rows : ~IsNaN(result.rows[i].PROPORTION)

\* records of two departments match, all with quantity 0, and the call
\* returned None
C13_Witness ==
    /\ pc = "returned"
    /\ Cardinality({ data[i].DEPARTMENT : i \in Aggregated }) >= 2
    /\ AggregatedUsage = 0
    /\ result.kind = "None"
    /\ dept_usage = <<>>

\* C14: allocate_quantity ends in None, in a table, or in the
\* AssertionError of its final check, and a table it returns always sums
\* to available_quantity.
C14_NoSilentMismatch ==
    Returned("allocate_quantity")
    => /\ result.kind \in {"None", "table", "AssertionError"}
       /\ result.kind = "table" => FInt(AllocatedSum) = available_quantity

\* a sum that differs from available_quantity, stopped by the assertion
C14_Witness ==
    /\ Returned("allocate_quantity")
    /\ result.kind = "AssertionError"
    /\ Len(result.rows) >= 2
    /\ FInt(AllocatedSum) # available_quantity

\* C16: for an integer total every ALLOCATED_QUANTITY is the floor or the
\* ceiling of the row's exact share; hence none is negative, none exceeds
\* the total, and an integer exact share is allocated as it is.
C16_FloorOrCeil ==
    (Returned("allocate_quantity") /\ result.kind = "table" /\ FIsInt(available_quantity))
    => \A i \in DOMAIN result.rows :
         LET exact == ExactShare(result.rows[i], available_quantity)
             a == result.rows[i].ALLOCATED_QUANTITY
         IN  /\ a \in {FFloor(exact), FCeil(exact)}
             /\ a >= 0
             /\ a <= available_quantity.n
             /\ FIsInt(exact) => a = exact.n

\* the correction step moved a unit while another row had an integer
\* exact share, which it kept
C16_Witness ==
    /\ Returned("allocate_quantity")
    /\ result.kind = "table"
    /\ FIsInt(available_quantity)
    /\ AdjustedRows # {}
    /\ \E i \in DOMAIN result.rows :
         LET exact == ExactShare(result.rows[i], available_quantity)
         IN  FIsInt(exact) /\ exact.n > 0 /\ result.rows[i].ALLOCATED_QUANTITY = exact.n

\* C17: for an integer total, a row with a strictly larger PROPORTION than
\* another never has a smaller ALLOCATED_QUANTITY.
C17_Monotone ==
    (Returned("allocate_quantity") /\ result.kind = "table" /\ FIsInt(available_quantity))
    => \A i, j \in DOMAIN result.rows :
         FGt(result.rows[i].PROPORTION, result.rows[j].PROPORTION)
         => result.rows[i].ALLOCATED_QUANTITY >= result.rows[j].ALLOCATED_QUANTITY

\* rows of different shares rounded to the same value, one unit then
\* added by the correction step
C17_Witness ==
    /\ Returned("allocate_quantity")
    /\ result.kind = "table"
    /\ FIsInt(available_quantity)
    /\ \E i, j \in DOMAIN result.rows :
         /\ FGt(result.rows[i].PROPORTION, result.rows[j].PROPORTION)
         /\ RoundedOf(i) = RoundedOf(j)
         /\ i \in AdjustedRows
         /\ result.rows[i].ALLOCATED_QUANTITY > result.rows[j].ALLOCATED_QUANTITY

\* what allocate_quantity alone can give for the k-th entry
AloneOutcomes(k) ==
    { [kind |-> o.kind, rows |-> o.rows] :
        o \in allocate_quantity(data, entries[k].identifier,
                                entries[k].available_quantity, department) }

\* C15: once the run of a submission has ended every entry has been
\* processed, and the outcome of each entry is an outcome of
\* allocate_quantity on that entry alone.
C15_EntriesIndependent ==
    /\ pc \in {"done", "aborted"} => Len(outcomes) = Len(entries)
    /\ \A k \in DOMAIN outcomes : outcomes[k] \in AloneOutcomes(k)

=============================================================================
